---- MODULE Spec2Model ----
(***************************************************************************)
(* Model of riff's developer-environment synthesis (src/dev_env.rs):       *)
(* DevEnvironment::detect, DevEnvironment::add_deps_from_cargo and         *)
(* DevEnvironment::to_flake, for up to two DevEnvironment values that      *)
(* share one read-only DependencyRegistry.                                 *)
(***************************************************************************)
EXTENDS Integers, Sequences, FiniteSets, TLC

\* Longest package list `cargo metadata` reports in the model.
MaxPackages == 2

\* The DevEnvironment values (one per detect call) of the process.
Calls == {1, 2}

\* Option<T>: None is the empty sequence, Some(x) the one-element sequence.
None == <<>>
Some(x) == <<x>>

\* An empty HashMap<String, String>.
EmptyMap == [k \in {} |-> ""]

\* `impl Ord for String` on the strings of the model: byte order.
StringOrder == <<"HI", "LD_LIBRARY_PATH", "cargo", "hello", "libGL", "openssl">>

Rank(s) == CHOOSE i \in 1..Len(StringOrder) : StringOrder[i] = s

\* Vec::sort of the elements of a set of strings.
RECURSIVE sort(_)
sort(S) ==
    IF S = {} THEN <<>>
    ELSE LET m == CHOOSE x \in S : \A y \in S : Rank(x) <= Rank(y)
         IN  <<m>> \o sort(S \ {m})

\* Itertools::join on a sequence of texts (each text a sequence of tokens).
RECURSIVE join(_, _)
join(texts, sep) ==
    IF Len(texts) = 0 THEN <<>>
    ELSE IF Len(texts) = 1 THEN texts[1]
    ELSE texts[1] \o <<sep>> \o join(Tail(texts), sep)

\* The orders in which iterating a HashSet / HashMap can yield its keys: the
\* order depends on the container's RandomState and is any enumeration.
IterOrders(S) ==
    {s \in [1..Cardinality(S) -> S] : \A i, j \in 1..Cardinality(S) : s[i] = s[j] => i = j}

\* u32/i32::to_string: decimal digits, most significant first.
Digit(d) == <<"0", "1", "2", "3", "4", "5", "6", "7", "8", "9">>[d + 1]

RECURSIVE to_string(_)
to_string(n) ==
    IF n < 10 THEN <<Digit(n)>> ELSE to_string(n \div 10) \o <<Digit(n % 10)>>

(***************************************************************************)
(* Data: override rules, the registry, package records, tool outputs.      *)
(***************************************************************************)
Rule(b, r, e) == [build_inputs |-> b, runtime_inputs |-> r, environment_variables |-> e]

EmptyRule == Rule({}, {}, EmptyMap)

\* The registries a process can hold: a fresh online one with a default rule
\* and a rule for openssl-sys, and an offline one without rules.
FreshRegistry ==
    [offline |-> FALSE,
     language |-> [rust |-> [default |-> Rule({"cargo"}, {}, EmptyMap),
                             dependencies |-> ("openssl-sys" :>
                                 Rule({"openssl"}, {}, ("HI" :> "WORLD")))]]]

OfflineRegistry ==
    [offline |-> TRUE,
     language |-> [rust |-> [default |-> EmptyRule, dependencies |-> EmptyMap]]]

Registries == {FreshRegistry, OfflineRegistry}

\* Package records of `cargo metadata`: name and Option<metadata>, the
\* metadata holding Option<riff>.
Package(n, m) == [name |-> n, metadata |-> m]

PackagePool ==
    { Package("hello", None),
      Package("riff-test",
              Some([riff |-> Some(Rule({"hello"}, {"libGL"}, ("HI" :> "BYE")))])),
      Package("openssl-sys",
              Some([riff |-> Some(Rule({}, {"openssl"}, ("HI" :> "HELLO")))])),
      Package("world",
              Some([riff |-> Some(Rule({}, {}, ("LD_LIBRARY_PATH" :> "/opt/lib")))])),
      Package("serde", Some([riff |-> None])) }

PackageLists == UNION {[1..n -> PackagePool] : n \in 0..MaxPackages}

\* Captured standard error / standard output of the tool.
StderrPool == {[valid_utf8 |-> TRUE, text |-> "error: could not find Cargo.toml"],
               [valid_utf8 |-> FALSE, text |-> "<bytes>"]}

StdoutPool ==
    {[valid_utf8 |-> FALSE, document |-> [version |-> "1"]],
     [valid_utf8 |-> TRUE, document |-> [version |-> "1"]]}
    \cup {[valid_utf8 |-> TRUE, document |-> [packages |-> l]] : l \in PackageLists}

\* What `Command::output().await` can yield: an io::Error, or an Output with
\* an exit status (code None when killed by a signal), stdout and stderr.
CommandResults ==
    {[spawn |-> "Err"]}
    \cup {[spawn |-> "Ok", code |-> c, stdout |-> [valid_utf8 |-> TRUE, document |-> [version |-> "1"]],
           stderr |-> e] : c \in {Some(101), None}, e \in StderrPool}
    \cup {[spawn |-> "Ok", code |-> Some(0), stdout |-> o,
           stderr |-> [valid_utf8 |-> TRUE, text |-> ""]] : o \in StdoutPool}

\* ExitStatus::success
success(output) == output.code = Some(0)

\* std::str::from_utf8
from_utf8(bytes) == IF bytes.valid_utf8 THEN Some(bytes) ELSE None

\* serde_json::from_str::<CargoMetadata>
from_str(document) ==
    IF "packages" \in DOMAIN document THEN Some([packages |-> document.packages]) ELSE None

VARIABLES
    registry,               \* the shared &DependencyRegistry
    project_dir,            \* per call: does the directory hold Cargo.toml
    build_inputs,           \* per call: HashSet<String>
    environment_variables,  \* per call: HashMap<String, String>
    runtime_inputs,         \* per call: HashSet<String>
    detected_languages,     \* per call: HashSet<DetectedLanguage>
    pc,                     \* per call: position in detect / add_deps_from_cargo
    command,                \* per call: the cargo command lines spawned
    spinner,                \* per call: "none", "running" or "cleared"
    cargo_metadata_output,  \* per call: Option of what the command yielded
    packages,               \* per call: metadata.packages still to visit
    result,                 \* per call: Option of what detect returned
    terminal,               \* per call: what was written to standard error
    flake,                  \* per call: Option of the text to_flake returned
    history,                \* per call: the spawn and the rules applied, in order
    process_alive           \* FALSE once std::process::exit ran

vars == <<registry, project_dir, build_inputs, environment_variables, runtime_inputs,
          detected_languages, pc, command, spinner, cargo_metadata_output, packages,
          result, terminal, flake, history, process_alive>>

acc_vars == <<build_inputs, environment_variables, runtime_inputs>>

\* DevEnvironment::new for the calls in `active`; the others never run.
InitFor(active) ==
    /\ registry \in Registries
    /\ project_dir \in [Calls -> [has_cargo_toml : BOOLEAN]]
    /\ \A c \in Calls \ active : project_dir[c].has_cargo_toml
    /\ build_inputs = [c \in Calls |-> {}]
    /\ environment_variables = [c \in Calls |-> EmptyMap]
    /\ runtime_inputs = [c \in Calls |-> {}]
    /\ detected_languages = [c \in Calls |-> {}]
    /\ pc = [c \in Calls |-> IF c \in active THEN "new" ELSE "unused"]
    /\ command = [c \in Calls |-> <<>>]
    /\ spinner = [c \in Calls |-> "none"]
    /\ cargo_metadata_output = [c \in Calls |-> None]
    /\ packages = [c \in Calls |-> <<>>]
    /\ result = [c \in Calls |-> None]
    /\ terminal = [c \in Calls |-> <<>>]
    /\ flake = [c \in Calls |-> None]
    /\ history = [c \in Calls |-> <<>>]
    /\ process_alive = TRUE

Init == InitFor({1})

InitConcurrent == InitFor(Calls)

Ok == [tag |-> "Ok"]
Err(msg) == [tag |-> "Err", msg |-> msg]

\* The three containers of call c's DevEnvironment that rules write to.
dev_env(c) ==
    [build_inputs |-> build_inputs[c],
     runtime_inputs |-> runtime_inputs[c],
     environment_variables |-> environment_variables[c]]

\* DevEnvironmentAppliable::apply: the DevEnvironment after the rule is
\* applied. Union the two input sets, upsert the environment variables.
apply(rule, env) ==
    [build_inputs |-> env.build_inputs \cup rule.build_inputs,
     runtime_inputs |-> env.runtime_inputs \cup rule.runtime_inputs,
     environment_variables |->
        [k \in DOMAIN env.environment_variables \cup DOMAIN rule.environment_variables |->
            IF k \in DOMAIN rule.environment_variables
            THEN rule.environment_variables[k] ELSE env.environment_variables[k]]]

\* Rules applied one after the other.
RECURSIVE apply_each(_, _)
apply_each(rules, env) ==
    IF rules = <<>> THEN env ELSE apply_each(Tail(rules), apply(Head(rules), env))

\* Call c's DevEnvironment becomes env.
store(c, env) ==
    /\ build_inputs' = [build_inputs EXCEPT ![c] = env.build_inputs]
    /\ runtime_inputs' = [runtime_inputs EXCEPT ![c] = env.runtime_inputs]
    /\ environment_variables' = [environment_variables EXCEPT ![c] = env.environment_variables]

\* detect without the test for Cargo.toml: every directory is taken for a
\* Rust project.
detect_unchecked(c) ==
    /\ process_alive
    /\ pc[c] = "new"
    /\ detected_languages' = [detected_languages EXCEPT ![c] = @ \cup {"Rust"}]
    /\ pc' = [pc EXCEPT ![c] = "add_deps_from_cargo"]
    /\ UNCHANGED <<registry, project_dir, acc_vars, command, spinner, result,
                   cargo_metadata_output, packages, terminal, flake, history, process_alive>>

\* detect, up to the call of add_deps_from_cargo.
detect(c) ==
    /\ process_alive
    /\ pc[c] = "new"
    /\ IF project_dir[c].has_cargo_toml
       THEN /\ detected_languages' = [detected_languages EXCEPT ![c] = @ \cup {"Rust"}]
            /\ pc' = [pc EXCEPT ![c] = "add_deps_from_cargo"]
            /\ UNCHANGED result
       ELSE /\ result' = [result EXCEPT ![c] =
                   Some(Err("does not contain a project recognized by Riff."))]
            /\ pc' = [pc EXCEPT ![c] = "returned"]
            /\ UNCHANGED detected_languages
    /\ UNCHANGED <<registry, project_dir, acc_vars, command, spinner,
                   cargo_metadata_output, packages, terminal, flake, history, process_alive>>

\* The command line add_deps_from_cargo builds.
cargo_metadata_command(offline) ==
    <<"cargo", "metadata", "--format-version", "1", "--manifest-path", "Cargo.toml">>
    \o (IF offline THEN <<"--offline">> ELSE <<>>)

\* add_deps_from_cargo up to the await of the command: build the command,
\* construct the spinner (which can fail), spawn the tool.
spawn_cargo_metadata(c) ==
    /\ process_alive
    /\ pc[c] = "add_deps_from_cargo"
    /\ \E spinner_ok \in BOOLEAN :
        IF spinner_ok
        THEN /\ spinner' = [spinner EXCEPT ![c] = "running"]
             /\ command' = [command EXCEPT ![c] =
                    Append(@, cargo_metadata_command(registry.offline))]
             /\ history' = [history EXCEPT ![c] = Append(@, [event |-> "spawn"])]
             /\ pc' = [pc EXCEPT ![c] = "awaiting_output"]
             /\ UNCHANGED result
        ELSE /\ result' = [result EXCEPT ![c] =
                    Some(Err("Failed to construct progress spinner"))]
             /\ pc' = [pc EXCEPT ![c] = "returned"]
             /\ UNCHANGED <<spinner, command, history>>
    /\ UNCHANGED <<registry, project_dir, acc_vars, detected_languages,
                   cargo_metadata_output, packages, terminal, flake, process_alive>>

\* The text of the error returned when the tool exits unsuccessfully.
exited_with_code(output) ==
    [tag |-> "Err", msg |-> "cargo metadata exited with code",
     code |-> IF output.code = None THEN <<"unknown">> ELSE to_string(output.code[1]),
     stderr |-> from_utf8(output.stderr)[1].text]

\* What add_deps_from_cargo does with an Output: Some(error) to return, or
\* None when the metadata parsed.
output_error(output) ==
    IF ~success(output)
    THEN IF from_utf8(output.stderr) = None
         THEN Some([tag |-> "Err", msg |-> "Utf8Error"])
         ELSE Some(exited_with_code(output))
    ELSE IF from_utf8(output.stdout) = None
    THEN Some(Err("Output produced by cargo metadata was not valid UTF8"))
    ELSE IF from_str(output.stdout.document) = None
    THEN Some(Err("Unable to parse output produced by cargo metadata into our desired structure"))
    ELSE None

\* The command completes: the match on its result, finish_and_clear, the
\* status check and the two decoding steps.
cargo_metadata_done(c) ==
    /\ process_alive
    /\ pc[c] = "awaiting_output"
    /\ \E out \in CommandResults :
        /\ cargo_metadata_output' = [cargo_metadata_output EXCEPT ![c] = Some(out)]
        /\ IF out.spawn = "Err"
           THEN /\ terminal' = [terminal EXCEPT ![c] =
                       Append(@, <<"Could not execute cargo metadata. Is cargo installed?">>)]
                /\ process_alive' = FALSE
                /\ pc' = [pc EXCEPT ![c] = "exited"]
                /\ UNCHANGED <<spinner, result, packages>>
           ELSE /\ spinner' = [spinner EXCEPT ![c] = "cleared"]
                /\ UNCHANGED <<terminal, process_alive>>
                /\ IF output_error(out) # None
                   THEN /\ result' = [result EXCEPT ![c] = output_error(out)]
                        /\ pc' = [pc EXCEPT ![c] = "returned"]
                        /\ UNCHANGED packages
                   ELSE /\ packages' = [packages EXCEPT ![c] =
                               from_str(out.stdout.document)[1].packages]
                        /\ pc' = [pc EXCEPT ![c] = "language"]
                        /\ UNCHANGED result
    /\ UNCHANGED <<registry, project_dir, acc_vars, detected_languages, command, flake,
                   history>>

\* The rules are appended to call c's history as applied.
applied(c, rules) ==
    history' = [history EXCEPT ![c] =
                   @ \o [i \in DOMAIN rules |-> [event |-> "apply", rule |-> rules[i]]]]

\* apply_default with the default rule applied only when there are packages.
apply_default_if_packages(c) ==
    /\ process_alive
    /\ pc[c] = "language"
    /\ IF packages[c] # <<>>
       THEN /\ store(c, apply(registry.language.rust.default, dev_env(c)))
            /\ applied(c, <<registry.language.rust.default>>)
       ELSE UNCHANGED <<acc_vars, history>>
    /\ pc' = [pc EXCEPT ![c] = "packages"]
    /\ UNCHANGED <<registry, project_dir, detected_languages, command, spinner,
                   cargo_metadata_output, packages, result, terminal, flake, process_alive>>

\* registry.language().await, then the default rule is applied.
apply_default(c) ==
    /\ process_alive
    /\ pc[c] = "language"
    /\ store(c, apply(registry.language.rust.default, dev_env(c)))
    /\ applied(c, <<registry.language.rust.default>>)
    /\ pc' = [pc EXCEPT ![c] = "packages"]
    /\ UNCHANGED <<registry, project_dir, detected_languages, command, spinner,
                   cargo_metadata_output, packages, result, terminal, flake, process_alive>>

\* package_rules with the two sources as alternatives: the inline override is
\* skipped when the registry knows the package.
package_rules_either(reg, package) ==
    IF package.name \in DOMAIN reg.language.rust.dependencies
    THEN <<reg.language.rust.dependencies[package.name]>>
    ELSE IF package.metadata = None THEN <<>>
    ELSE IF package.metadata[1].riff = None THEN <<>>
    ELSE <<package.metadata[1].riff[1]>>

\* package_rules with the inline override applied before the registry's rule.
package_rules_swapped(reg, package) ==
    (IF package.metadata = None THEN <<>>
     ELSE IF package.metadata[1].riff = None THEN <<>>
     ELSE <<package.metadata[1].riff[1]>>)
    \o (IF package.name \in DOMAIN reg.language.rust.dependencies
        THEN <<reg.language.rust.dependencies[package.name]>> ELSE <<>>)

\* The rules one iteration of `for package in metadata.packages` applies, in
\* order: the registry's rule for the name, then package.metadata.riff.
package_rules(reg, package) ==
    (IF package.name \in DOMAIN reg.language.rust.dependencies
     THEN <<reg.language.rust.dependencies[package.name]>> ELSE <<>>)
    \o (IF package.metadata = None THEN <<>>
        ELSE IF package.metadata[1].riff = None THEN <<>>
        ELSE <<package.metadata[1].riff[1]>>)

\* One iteration of the loop over metadata.packages.
visit_package(c) ==
    /\ process_alive
    /\ pc[c] = "packages"
    /\ packages[c] # <<>>
    /\ store(c, apply_each(package_rules(registry, Head(packages[c])), dev_env(c)))
    /\ applied(c, package_rules(registry, Head(packages[c])))
    /\ packages' = [packages EXCEPT ![c] = Tail(@)]
    /\ UNCHANGED <<registry, project_dir, detected_languages, pc, command, spinner,
                   cargo_metadata_output, result, terminal, flake, process_alive>>

\* The status line printed after the loop.
status_line(build, runtime, env) ==
    <<"rust", ": ">>
    \o join([i \in 1..Cardinality(build \cup runtime) |-> <<sort(build \cup runtime)[i]>>], ", ")
    \o (IF DOMAIN env # {}
        THEN <<" (">>
             \o join([i \in 1..Cardinality(DOMAIN env) |-> <<sort(DOMAIN env)[i]>>], ", ")
             \o <<")">>
        ELSE <<>>)

\* The loop is over: print the status line and return Ok(()).
finish(c) ==
    /\ process_alive
    /\ pc[c] = "packages"
    /\ packages[c] = <<>>
    /\ terminal' = [terminal EXCEPT ![c] =
           Append(@, status_line(build_inputs[c], runtime_inputs[c], environment_variables[c]))]
    /\ result' = [result EXCEPT ![c] = Some(Ok)]
    /\ pc' = [pc EXCEPT ![c] = "returned"]
    /\ UNCHANGED <<registry, project_dir, acc_vars, detected_languages, command, spinner,
                   cargo_metadata_output, packages, flake, history, process_alive>>

\* to_flake on an accumulator whose containers iterate in the given orders:
\* the three arguments interpolated into the template.
to_flake(build_iter, env_iter, env, runtime_iter) ==
    [build_inputs |-> join([i \in 1..Len(build_iter) |-> <<build_iter[i]>>], " "),
     environment_variables |->
        join([i \in 1..Len(env_iter) |->
                 <<"\"", env_iter[i], "\" = \"", env[env_iter[i]], "\";">>], "\n"),
     ld_library_path |->
        IF runtime_iter # <<>>
        THEN <<"\"", "LD_LIBRARY_PATH", "\" = \"">>
             \o join([i \in 1..Len(runtime_iter) |->
                         <<"${lib.getLib ", runtime_iter[i], "}/lib">>], ":")
             \o <<"\";">>
        ELSE <<>>]

\* The caller renders the environment after a successful detect.
render(c) ==
    /\ process_alive
    /\ pc[c] = "returned"
    /\ result[c] = Some(Ok)
    /\ \E bi \in IterOrders(build_inputs[c]),
          ei \in IterOrders(DOMAIN environment_variables[c]),
          ri \in IterOrders(runtime_inputs[c]) :
          flake' = [flake EXCEPT ![c] =
                       Some(to_flake(bi, ei, environment_variables[c], ri))]
    /\ pc' = [pc EXCEPT ![c] = "rendered"]
    /\ UNCHANGED <<registry, project_dir, acc_vars, detected_languages, command, spinner,
                   cargo_metadata_output, packages, result, terminal, history,
                   process_alive>>

\* One step of call c.
step(c) ==
    \/ detect(c)
    \/ spawn_cargo_metadata(c)
    \/ cargo_metadata_done(c)
    \/ apply_default(c)
    \/ visit_package(c)
    \/ finish(c)
    \/ render(c)

Next == \E c \in Calls : step(c)

Spec == Init /\ [][Next]_vars

SpecConcurrent == InitConcurrent /\ [][Next]_vars

(***************************************************************************)
(* Properties.                                                             *)
(***************************************************************************)

\* The package list call c fetched (empty while nothing was fetched).
Fetched(c) ==
    IF cargo_metadata_output[c] # None
       /\ cargo_metadata_output[c][1].spawn = "Ok"
       /\ output_error(cargo_metadata_output[c][1]) = None
    THEN cargo_metadata_output[c][1].stdout.document.packages
    ELSE <<>>

\* The packages of the fetched list the loop has gone through.
Visited(c) == SubSeq(Fetched(c), 1, Len(Fetched(c)) - Len(packages[c]))

\* The loop over the packages has been entered, so the defaults were applied.
DefaultsApplied(c) == pc[c] = "packages" \/ result[c] = Some(Ok)

\* The rules applied for a list of packages: per package the registry's rule
\* when it has one, then the package's own override when it declares one.
RECURSIVE RulesFor(_)
RulesFor(pkgs) ==
    IF pkgs = <<>> THEN <<>>
    ELSE LET p == Head(pkgs)
             deps == registry.language.rust.dependencies
         IN  (IF p.name \in DOMAIN deps THEN <<deps[p.name]>> ELSE <<>>)
             \o (IF p.metadata # None /\ p.metadata[1].riff # None
                 THEN p.metadata[1].riff ELSE <<>>)
             \o RulesFor(Tail(pkgs))

\* The rules applied to call c's accumulator so far, in order.
Applied(c) ==
    IF DefaultsApplied(c)
    THEN <<registry.language.rust.default>> \o RulesFor(Visited(c))
    ELSE <<>>

Range(f) == {f[i] : i \in DOMAIN f}

\* C1: the build-input and runtime-input sets never lose an element in a
\* step, and after every step each is exactly the union of the corresponding
\* sets of the rules applied so far (at the end: of all applied rules).
C1_InputsAreUnionOfAppliedRules ==
    [][\A c \in Calls :
          /\ build_inputs[c] \subseteq build_inputs'[c]
          /\ runtime_inputs[c] \subseteq runtime_inputs'[c]
          /\ build_inputs'[c] = UNION {r.build_inputs : r \in Range(Applied(c)')}
          /\ runtime_inputs'[c] = UNION {r.runtime_inputs : r \in Range(Applied(c)')}]_vars

\* A resolve ended after applying the defaults and four package rules, with
\* inputs from three different rules.
C1_Witness ==
    /\ result[1] = Some(Ok)
    /\ Len(Applied(1)) = 4
    /\ build_inputs[1] = {"cargo", "hello", "openssl"}
    /\ runtime_inputs[1] = {"libGL", "openssl"}

\* The value the last of the rules declaring variable v gives it.
LastValue(rules, v) ==
    LET last == CHOOSE i \in DOMAIN rules :
                    /\ v \in DOMAIN rules[i].environment_variables
                    /\ \A j \in DOMAIN rules :
                          j > i => v \notin DOMAIN rules[j].environment_variables
    IN  rules[last].environment_variables[v]

\* C2: the environment-variable map has exactly the variables the applied
\* rules declare, one entry each, and each variable has the value of the
\* last applied rule that declares it.
C2_LastAppliedRuleWins ==
    \A c \in Calls :
        /\ DOMAIN environment_variables[c] =
               UNION {DOMAIN r.environment_variables : r \in Range(Applied(c))}
        /\ \A v \in DOMAIN environment_variables[c] :
               environment_variables[c][v] = LastValue(Applied(c), v)

\* riff-test (HI = BYE) was visited before openssl-sys, whose registry rule
\* (HI = WORLD) and then inline override (HI = HELLO) declare HI again.
C2_Witness ==
    /\ result[1] = Some(Ok)
    /\ Len(Fetched(1)) = 2
    /\ Fetched(1)[1].name = "riff-test"
    /\ Fetched(1)[2].name = "openssl-sys"
    /\ registry = FreshRegistry
    /\ environment_variables[1] = ("HI" :> "HELLO")

\* The rendered text: the three interpolated sections one after the other.
Text(f) == f.build_inputs \o f.environment_variables \o f.ld_library_path

\* C3: two accumulators with equal build inputs, runtime inputs and
\* environment variables render to identical text.
C3_RenderIsDeterministic ==
    \A c, d \in Calls :
        (flake[c] # None /\ flake[d] # None /\ dev_env(c) = dev_env(d))
            => flake[c] = flake[d]

\* C4: the build-input listing of the rendered text is the sorted union of
\* the build inputs and the runtime inputs, joined by single spaces.
C4_BuildListingIsSortedUnion ==
    \A c \in Calls :
        flake[c] # None =>
            LET all == sort(build_inputs[c] \cup runtime_inputs[c])
            IN  flake[c][1].build_inputs = join([i \in DOMAIN all |-> <<all[i]>>], " ")

\* The number of declarations of the attribute `name` in a text.
Declarations(text, name) ==
    Cardinality({i \in 1..(Len(text) - 2) :
                    text[i] = "\"" /\ text[i + 1] = name /\ text[i + 2] = "\" = \""})

\* The number of path entries for runtime input v in a text.
PathEntries(text, v) ==
    Cardinality({i \in 1..(Len(text) - 2) :
                    text[i] = "${lib.getLib " /\ text[i + 1] = v /\ text[i + 2] = "}/lib"})

\* C5: the rendered text has no LD_LIBRARY_PATH declaration when there are no
\* runtime inputs, and otherwise exactly one, with one path entry for every
\* runtime input.
C5_LibraryPathDeclaredOnce ==
    \A c \in Calls :
        flake[c] # None =>
            IF runtime_inputs[c] = {}
            THEN Declarations(Text(flake[c][1]), "LD_LIBRARY_PATH") = 0
            ELSE /\ Declarations(Text(flake[c][1]), "LD_LIBRARY_PATH") = 1
                 /\ \A v \in runtime_inputs[c] : PathEntries(Text(flake[c][1]), v) = 1

NotRecognized == Err("does not contain a project recognized by Riff.")

\* C6: once detect has looked at the directory: without Cargo.toml it returns
\* the not-recognized error, no command was spawned and no language is
\* detected; with Cargo.toml the detected languages contain Rust and the
\* not-recognized error is never returned.
C6_DetectByMarker ==
    \A c \in Calls :
        pc[c] \notin {"new", "unused"} =>
            IF project_dir[c].has_cargo_toml
            THEN "Rust" \in detected_languages[c] /\ result[c] # Some(NotRecognized)
            ELSE /\ result[c] = Some(NotRecognized)
                 /\ command[c] = <<>>
                 /\ detected_languages[c] = {}

\* detect returned the not-recognized error for a directory without Cargo.toml.
C6_Witness ==
    /\ ~project_dir[1].has_cargo_toml
    /\ pc[1] = "returned"
    /\ result[1] = Some(NotRecognized)

\* The call returned an error of ecosystem detection or of the metadata fetch.
DetectionOrFetchFailed(c) ==
    /\ result[c] # None
    /\ result[c][1].tag = "Err"
    /\ result[c] = Some(NotRecognized) \/ cargo_metadata_output[c] # None

\* C7: when detection or the metadata fetch fails, the caller's accumulator
\* is as it was before the call (all four containers empty).
C7_NoPartialAccumulatorOnError ==
    \A c \in Calls :
        DetectionOrFetchFailed(c) =>
            /\ build_inputs[c] = {}
            /\ runtime_inputs[c] = {}
            /\ environment_variables[c] = EmptyMap
            /\ detected_languages[c] = {}

\* The failure class of a returned error, by its message.
Class(res) ==
    IF res.tag = "Ok" THEN "Packages"
    ELSE IF res.msg = "cargo metadata exited with code" THEN "ToolFailed"
    ELSE IF res.msg \in {"Output produced by cargo metadata was not valid UTF8",
                         "Unable to parse output produced by cargo metadata into our desired structure"}
    THEN "MalformedOutput"
    ELSE "Other"

\* C8: once the command has completed, the call holds the outcome its cause
\* determines: a returned ToolMissing error when the tool could not be run, a
\* returned ToolFailed error with the captured stderr text and the exit code
\* when it exited non-zero, a returned MalformedOutput error when its output
\* does not decode, and otherwise the package list.
C8_FetchOutcomeByCause ==
    \A c \in Calls :
        cargo_metadata_output[c] # None =>
            LET out == cargo_metadata_output[c][1]
            IN  IF out.spawn = "Err"
                THEN result[c] # None /\ result[c][1].tag = "Err"
                ELSE IF out.code # Some(0)
                THEN /\ result[c] # None
                     /\ Class(result[c][1]) = "ToolFailed"
                     /\ result[c][1].stderr = out.stderr.text
                     /\ result[c][1].code =
                            (IF out.code = None THEN <<"unknown">> ELSE to_string(out.code[1]))
                ELSE IF ~out.stdout.valid_utf8 \/ "packages" \notin DOMAIN out.stdout.document
                THEN result[c] # None /\ Class(result[c][1]) = "MalformedOutput"
                ELSE /\ result[c] # None => Class(result[c][1]) = "Packages"
                     /\ result[c] = None =>
                            packages[c] =
                                SubSeq(out.stdout.document.packages,
                                       Len(out.stdout.document.packages) - Len(packages[c]) + 1,
                                       Len(out.stdout.document.packages))

\* The positions in which a call has nothing more to do.
Ended == {"returned", "rendered", "exited", "unused"}

\* C9: no step of one call changes the state of another call or takes away
\* its next step.
C9_CallsDoNotInterfere ==
    [][\A c, d \in Calls :
          (c # d /\ step(d)) =>
              /\ <<build_inputs[c], runtime_inputs[c], environment_variables[c],
                    detected_languages[c], pc[c], result[c], flake[c]>>' =
                 <<build_inputs[c], runtime_inputs[c], environment_variables[c],
                   detected_languages[c], pc[c], result[c], flake[c]>>
              /\ (pc[c] \notin Ended /\ process_alive) => process_alive']_vars

\* C10: whenever something is written to the terminal the spinner is not
\* running, and it is not running when the call has ended.
C10_SpinnerClearedBeforeOutput ==
    [][\A c \in Calls :
          /\ Len(terminal'[c]) > Len(terminal[c]) => spinner'[c] # "running"
          /\ pc'[c] \in Ended => spinner'[c] # "running"]_vars

\* The rules of the apply events of a history, in order.
RulesApplied(h) ==
    LET applies == SelectSeq(h, LAMBDA e : e.event = "apply")
    IN  [i \in DOMAIN applies |-> applies[i].rule]

ApplyEvent(rule) == [event |-> "apply", rule |-> rule]

\* Records i+1.. of the fetched list declare variable v (in a registry rule or
\* an inline override).
DeclaredLater(c, i, v) ==
    \E r \in Range(RulesFor(SubSeq(Fetched(c), i + 1, Len(Fetched(c))))) :
        v \in DOMAIN r.environment_variables

\* After a successful resolve: a variable that both the registry rule and the
\* inline override of one record declare has the inline value, unless a later
\* record declares it again.
InlineWins(c) ==
    result[c] = Some(Ok) =>
        \A i \in DOMAIN Fetched(c) :
            LET p == Fetched(c)[i]
                deps == registry.language.rust.dependencies
            IN  (p.name \in DOMAIN deps /\ p.metadata # None /\ p.metadata[1].riff # None) =>
                    \A v \in DOMAIN deps[p.name].environment_variables
                             \cap DOMAIN p.metadata[1].riff[1].environment_variables :
                        ~DeclaredLater(c, i, v) =>
                            environment_variables[c][v] =
                                p.metadata[1].riff[1].environment_variables[v]

\* C11 as stated: the defaults are the first thing a resolve does, before the
\* command is spawned; after them come, per visited record in fetched order,
\* its registry rule and then its inline override; the inline value wins.
C11_DefaultsBeforeFetch ==
    \A c \in Calls :
        /\ history[c] # <<>> =>
              /\ history[c][1] = ApplyEvent(registry.language.rust.default)
              /\ RulesApplied(history[c]) =
                    <<registry.language.rust.default>> \o RulesFor(Visited(c))
        /\ InlineWins(c)

\* C11 as the code has it: the command is spawned first and no rule is
\* applied until it has succeeded; then the defaults are applied, before any
\* package rule and also when the package list is empty; then per visited
\* record in fetched order its registry rule and then its inline override; the
\* inline value wins.
C11_DefaultsAfterFetch ==
    \A c \in Calls :
        /\ history[c] # <<>> =>
              /\ history[c][1] = [event |-> "spawn"]
              /\ Len(history[c]) = 1 + Len(RulesApplied(history[c]))
        /\ RulesApplied(history[c]) =
              (IF pc[c] = "packages" \/ result[c] = Some(Ok)
               THEN <<registry.language.rust.default>> \o RulesFor(Visited(c))
               ELSE <<>>)
        /\ result[c] = Some(Ok) => Visited(c) = Fetched(c)
        /\ InlineWins(c)

\* A resolve of the one record openssl-sys ended: spawn, defaults, registry
\* rule (HI = WORLD), inline override (HI = HELLO); HI has the inline value.
C11_Witness ==
    /\ result[1] = Some(Ok)
    /\ registry = FreshRegistry
    /\ Len(Fetched(1)) = 1
    /\ Fetched(1)[1].name = "openssl-sys"
    /\ Len(history[1]) = 4
    /\ history[1][2] = ApplyEvent(FreshRegistry.language.rust.default)
    /\ history[1][3].rule.environment_variables = ("HI" :> "WORLD")
    /\ history[1][4].rule.environment_variables = ("HI" :> "HELLO")
    /\ environment_variables[1] = ("HI" :> "HELLO")

====
